---- MODULE Spec2Model ----
(***************************************************************************)
(* Model of the fromblank page server: the Page Store (app/storage.py),    *)
(* the generation stream (app/generator.py) and the HTTP handlers with     *)
(* their abuse guard (app/main.py).                                        *)
(*                                                                         *)
(* Python strings are sequences of one-character strings, so that          *)
(* lower(), strip(), removeprefix(), replace(), rfind(), os.path.splitext  *)
(* and the JSON encoding of prompt_history are computed, not assumed.      *)
(* Fixed template text (the shell document, the literal parts of the       *)
(* overlay) is written as single opaque tokens.                            *)
(***************************************************************************)
EXTENDS Integers, Sequences, FiniteSets, TLC

\* ------------------------------------------------------------------ bounds
\* number of generation requests that get past the guard (one stream each)
MaxStreams == 3
\* largest number of fragments the backend emits in one stream
MaxFrags == 2
\* last instant of the monotonic clock (time.monotonic)
MaxMonotonic == 2
\* last instant of the wall clock (datetime.now)
MaxWall == 1

\* ------------------------------------------------- configuration (main.py)
\* RATE_LIMIT_REQUESTS / RATE_LIMIT_WINDOW are read from the environment;
\* the model runs the limiter with a small quota and a short window.
RATE_LIMIT_REQUESTS == 2
RATE_LIMIT_WINDOW == 2

\* ------------------------------------------------------- string primitives
Whitespace == {" ", "\n", "\t"}

UpperToLower ==
    [c \in {"A","B","C","D","E","F","G","H","I","J","K","L","M",
            "N","O","P","Q","R","S","T","U","V","W","X","Y","Z"} |->
        CASE c = "A" -> "a" [] c = "B" -> "b" [] c = "C" -> "c" [] c = "D" -> "d"
          [] c = "E" -> "e" [] c = "F" -> "f" [] c = "G" -> "g" [] c = "H" -> "h"
          [] c = "I" -> "i" [] c = "J" -> "j" [] c = "K" -> "k" [] c = "L" -> "l"
          [] c = "M" -> "m" [] c = "N" -> "n" [] c = "O" -> "o" [] c = "P" -> "p"
          [] c = "Q" -> "q" [] c = "R" -> "r" [] c = "S" -> "s" [] c = "T" -> "t"
          [] c = "U" -> "u" [] c = "V" -> "v" [] c = "W" -> "w" [] c = "X" -> "x"
          [] c = "Y" -> "y" [] c = "Z" -> "z"]

\* str.lower() of one character. "U+0130" stands for the one character
\* LATIN CAPITAL LETTER I WITH DOT ABOVE, whose lower case is the two
\* characters "i" and "U+0307" (COMBINING DOT ABOVE): lower() can make a
\* string longer
LowerChar(c) ==
    IF c \in DOMAIN UpperToLower THEN <<UpperToLower[c]>>
    ELSE IF c = "U+0130" THEN <<"i", "U+0307">>
    ELSE <<c>>

\* str.lower()
RECURSIVE Lower(_)
Lower(s) == IF s = <<>> THEN <<>> ELSE LowerChar(Head(s)) \o Lower(Tail(s))

\* s[a:b] with 0-based, end-exclusive Python indices 0 <= a, b <= len(s)
Slice(s, a, b) == IF b <= a THEN <<>> ELSE SubSeq(s, a + 1, b)

\* str.startswith(pre)
StartsWith(s, pre) == Len(s) >= Len(pre) /\ SubSeq(s, 1, Len(pre)) = pre

\* str.removeprefix(pre)
RemovePrefix(s, pre) == IF StartsWith(s, pre) THEN Slice(s, Len(pre), Len(s)) ELSE s

\* str.strip()
RECURSIVE LStrip(_)
LStrip(s) == IF s # <<>> /\ Head(s) \in Whitespace THEN LStrip(Tail(s)) ELSE s

RECURSIVE RStrip(_)
RStrip(s) ==
    IF s # <<>> /\ s[Len(s)] \in Whitespace THEN RStrip(SubSeq(s, 1, Len(s) - 1)) ELSE s

Strip(s) == RStrip(LStrip(s))

\* str.replace(c, new) for a one-character c
RECURSIVE ReplaceChar(_, _, _)
ReplaceChar(s, c, new) ==
    IF s = <<>> THEN <<>>
    ELSE (IF Head(s) = c THEN new ELSE <<Head(s)>>) \o ReplaceChar(Tail(s), c, new)

\* str.replace(c, new, 1) for a one-character c
RECURSIVE ReplaceFirst(_, _, _)
ReplaceFirst(s, c, new) ==
    IF s = <<>> THEN <<>>
    ELSE IF Head(s) = c THEN new \o Tail(s)
    ELSE <<Head(s)>> \o ReplaceFirst(Tail(s), c, new)

\* str.rfind(sub): 0-based index of the last occurrence, -1 when there is none
RFind(s, sub) ==
    LET hits == {i \in 0..(Len(s) - Len(sub)) : Slice(s, i, i + Len(sub)) = sub}
    IN  IF hits = {} THEN -1 ELSE CHOOSE i \in hits : \A j \in hits : j <= i

\* sub in s
Contains(s, sub) == RFind(s, sub) >= 0

\* "".join(chunks)
RECURSIVE Join(_)
Join(chunks) == IF chunks = <<>> THEN <<>> ELSE Head(chunks) \o Join(Tail(chunks))

\* os.path.splitext(p)[1]: the text from the last dot of the last path
\* component on, unless that component has nothing but dots before it
SplitExt(p) ==
    LET sepIndex == RFind(p, <<"/">>)
        dotIndex == RFind(p, <<".">>)
    IN  IF dotIndex > sepIndex
           /\ \E k \in (sepIndex + 1)..(dotIndex - 1) : p[k + 1] # "."
        THEN Slice(p, dotIndex, Len(p))
        ELSE <<>>

\* ------------------------------------------------ json.dumps / json.loads
\* the string escapes of json.dumps
JsonEscape(s) ==
    ReplaceChar(ReplaceChar(ReplaceChar(s, "\\", <<"\\", "\\">>),
                            "\"", <<"\\", "\"">>),
                "\n", <<"\\", "n">>)

\* json.dumps of one str
JsonString(s) == <<"\"">> \o JsonEscape(s) \o <<"\"">>

RECURSIVE JsonItems(_)
JsonItems(list) ==
    IF list = <<>> THEN <<>>
    ELSE IF Len(list) = 1 THEN JsonString(list[1])
    ELSE JsonString(Head(list)) \o <<",", " ">> \o JsonItems(Tail(list))

\* json.dumps of a list of str
JsonDumps(list) == <<"[">> \o JsonItems(list) \o <<"]">>

JsonUnescape(c) == IF c = "n" THEN "\n" ELSE c

\* json.loads of a JSON array of strings: a scanner over the text
RECURSIVE JsonScan(_, _, _, _, _)
JsonScan(t, i, inStr, cur, acc) ==
    IF i > Len(t) THEN acc
    ELSE IF inStr
         THEN IF t[i] = "\\" /\ i < Len(t)
              THEN JsonScan(t, i + 2, TRUE, Append(cur, JsonUnescape(t[i + 1])), acc)
              ELSE IF t[i] = "\""
                   THEN JsonScan(t, i + 1, FALSE, <<>>, Append(acc, cur))
                   ELSE JsonScan(t, i + 1, TRUE, Append(cur, t[i]), acc)
         ELSE IF t[i] = "\""
              THEN JsonScan(t, i + 1, TRUE, <<>>, acc)
              ELSE JsonScan(t, i + 1, FALSE, cur, acc)

JsonLoads(t) == JsonScan(t, 1, FALSE, <<>>, <<>>)

\* ------------------------------------------------------- guard (main.py)
BLOCKED_EXTENSIONS ==
    { <<".","t","x","t">>,
      <<".","x","m","l">>,
      <<".","j","s","o","n">>,
      <<".","e","n","v">>,
      <<".","y","m","l">>,
      <<".","y","a","m","l">>,
      <<".","p","h","p">>,
      <<".","a","s","p">>,
      <<".","a","s","p","x">>,
      <<".","j","s","p">>,
      <<".","c","g","i">>,
      <<".","p","l">>,
      <<".","b","a","k">>,
      <<".","o","l","d">>,
      <<".","o","r","i","g">>,
      <<".","s","w","p">>,
      <<".","s","q","l">>,
      <<".","d","b">>,
      <<".","l","o","g">>,
      <<".","i","n","i">>,
      <<".","c","f","g">>,
      <<".","c","o","n","f">>,
      <<".","t","o","m","l">>,
      <<".","h","t","a","c","c","e","s","s">>,
      <<".","h","t","p","a","s","s","w","d">>,
      <<".","g","i","t">>,
      <<".","s","v","n">>,
      <<".","d","s","_","s","t","o","r","e">>,
      <<".","i","c","o">> }

BLOCKED_PATHS ==
    { <<"/","r","o","b","o","t","s",".","t","x","t">>,
      <<"/","s","i","t","e","m","a","p",".","x","m","l">>,
      <<"/","c","o","n","f","i","g",".","j","s","o","n">>,
      <<"/","p","a","c","k","a","g","e",".","j","s","o","n">>,
      <<"/","c","o","m","p","o","s","e","r",".","j","s","o","n">>,
      <<"/",".","e","n","v">>,
      <<"/",".","g","i","t","/","c","o","n","f","i","g">>,
      <<"/","w","p","-","l","o","g","i","n",".","p","h","p">>,
      <<"/","w","p","-","a","d","m","i","n">>,
      <<"/","a","d","m","i","n">>,
      <<"/","a","d","m","i","n","i","s","t","r","a","t","o","r">>,
      <<"/",".","w","e","l","l","-","k","n","o","w","n">>,
      <<"/","f","a","v","i","c","o","n",".","i","c","o">>,
      <<"/","s","s","e">>,
      <<"/","m","c","p">>,
      <<"/","m","c","p","-","s","s","e">>,
      <<"/","g","r","a","p","h","q","l">>,
      <<"/","a","p","i">>,
      <<"/","a","p","i","/">>,
      <<"/",".","g","i","t">>,
      <<"/",".","s","v","n">>,
      <<"/",".","D","S","_","S","t","o","r","e">>,
      <<"/","x","m","l","r","p","c",".","p","h","p">>,
      <<"/","w","p","-","c","r","o","n",".","p","h","p">>,
      <<"/","s","e","r","v","e","r","-","s","t","a","t","u","s">>,
      <<"/","s","e","r","v","e","r","-","i","n","f","o">> }

\* ----------------------------------------------------------------- inputs
\* request.client.host
SourceKeys == {"A", "B"}

\* values of the API_SECRET environment variable
Secrets == {<<>>, <<"s">>}

Bearer == <<"B","e","a","r","e","r"," ">>

\* values of the Authorization header (<<>>: the header is absent)
AuthHeaders ==
    { <<>>,
      Bearer \o <<"s">>,
      Bearer \o <<"w">>,
      Bearer \o <<" ","s">>,
      <<"s">> }

\* req.path of POST /api/generate
RequestPaths ==
    { <<"a">>,
      <<"/",".","e","n","v">>,
      <<"/","X",".","T","X","T">> }

\* req.prompt
Prompts == { <<"p">>, <<"'","\"","\n">> }

\* req.mode
Modes == {"create", "rebuild"}

\* text fragments of the backend's text_stream
Fragments == { <<"h">>, <<"<","/","B","o","d","y",">">> }

\* URL paths of GET requests
Urls ==
    { <<"/">>,
      <<"/","a">>,
      <<"/",".","e","n","v">>,
      <<"/",".","E","N","V">>,
      <<"/","X",".","T","X","T">>,
      <<"/","x",".","t","x","t">>,
      <<"/",".","D","S","_","S","t","o","r","e">>,
      <<"/","a","d","m","i","n">> }

\* the smaller inputs of the specification that exercises the guard
GuardPaths == { <<"a">> }
GuardPrompts == { <<"p">> }
GuardModes == {"create"}
GuardUrls == { <<"/","a">> }

\* the inputs of the specification that exercises the pipeline: one source
\* that presents the secret as a bearer credential or sends no header
PipelineKeys == {"A"}
PipelineHeaders == { <<>>, Bearer \o <<"s">> }

\* the inputs of the specification that exercises the build overlay: stored
\* documents made of text, closing body tags in two letter cases and the
\* character whose lower case is two characters
OverlayHeaders == { Bearer \o <<"s">> }
OverlayFragments ==
    { <<"h">>,
      <<"<","/","b","o","d","y",">">>,
      <<"<","/","B","O","D","Y",">">>,
      <<"U+0130">> }

\* the inputs of the specification that exercises rebuild requests: two
\* sources (so that three requests get past the limiter), one path, two
\* prompts, both modes, documents of one, two or no "h"
RebuildPrompts == { <<"p">>, <<"q">> }
RebuildFragments == { <<"h">> }

\* ------------------------------------------------------------------ state
VARIABLES
    API_SECRET,   \* main.py: the configured shared secret ("" = no gate)
    monotonic,    \* the time time.monotonic() reads
    wallclock,    \* the time datetime.now(timezone.utc) reads
    pages,        \* storage.py: the pages table, path -> row
    hits,         \* RateLimiter._hits, key -> list of hit times
    streams,      \* the stream_and_save generators, one per accepted request
    response,     \* the status of the last POST /api/generate response
    saveLog,      \* history: per path, the prompts of the save_page calls in
                  \* call order and the html_content of the last call
    allowedAt,    \* history: the times is_allowed returned True, per key
    completed,    \* history: paths for which a backend stream ran to its end
    rejected,     \* history: the keys is_allowed has returned False for
    raced         \* history: paths saved by a request while another request
                  \* for the same path was streaming fragments

vars == <<API_SECRET, monotonic, wallclock, pages, hits, streams, response,
          saveLog, allowedAt, completed, rejected, raced>>

\* ---------------------------------------------------- Page Store (storage.py)
\* get_page: the row at exactly this path, prompt_history decoded
get_page(path) ==
    IF path \in DOMAIN pages
    THEN [found          |-> TRUE,
          path           |-> path,
          html_content   |-> pages[path].html_content,
          prompt_history |-> JsonLoads(pages[path].prompt_history),
          created_at     |-> pages[path].created_at,
          updated_at     |-> pages[path].updated_at]
    ELSE [found |-> FALSE]

\* save_page with a slip: a prompt equal to the last one is not appended
save_page_dedup(path, html_content, prompt) ==
    LET existing == get_page(path)
        history  == IF existing.found THEN existing.prompt_history ELSE <<>>
        appended == IF history # <<>> /\ history[Len(history)] = prompt
                    THEN history ELSE Append(history, prompt)
    IN  [p \in DOMAIN pages \cup {path} |->
            IF p = path
            THEN [html_content   |-> html_content,
                  prompt_history |-> JsonDumps(appended),
                  created_at     |-> IF existing.found THEN pages[path].created_at
                                     ELSE wallclock,
                  updated_at     |-> wallclock]
            ELSE pages[p]]

\* save_page with a slip: only an existing row is written
save_page_update_only(path, html_content, prompt) ==
    LET existing == get_page(path)
    IN  IF existing.found
        THEN [pages EXCEPT ![path] =
                 [html_content   |-> html_content,
                  prompt_history |-> JsonDumps(Append(existing.prompt_history, prompt)),
                  created_at     |-> pages[path].created_at,
                  updated_at     |-> wallclock]]
        ELSE pages

\* save_page with a slip: an existing row keeps its html_content
save_page_keeps_html(path, html_content, prompt) ==
    LET existing == get_page(path)
    IN  IF existing.found
        THEN [pages EXCEPT ![path] =
                 [html_content   |-> pages[path].html_content,
                  prompt_history |-> JsonDumps(Append(existing.prompt_history, prompt)),
                  created_at     |-> pages[path].created_at,
                  updated_at     |-> wallclock]]
        ELSE [p \in DOMAIN pages \cup {path} |->
                 IF p = path
                 THEN [html_content   |-> html_content,
                       prompt_history |-> JsonDumps(<<prompt>>),
                       created_at     |-> wallclock,
                       updated_at     |-> wallclock]
                 ELSE pages[p]]

\* save_page with a slip: the write is not restricted to the row of the path
\* (an UPDATE without its WHERE clause): every row gets the new document
save_page_writes_all_rows(path, html_content, prompt) ==
    LET existing == get_page(path)
        history  == IF existing.found THEN existing.prompt_history ELSE <<>>
    IN  [p \in DOMAIN pages \cup {path} |->
            IF p = path
            THEN [html_content   |-> html_content,
                  prompt_history |-> JsonDumps(Append(history, prompt)),
                  created_at     |-> IF existing.found THEN pages[path].created_at
                                     ELSE wallclock,
                  updated_at     |-> wallclock]
            ELSE [pages[p] EXCEPT !.html_content = html_content]]

\* save_page with a slip: an update writes a history of the new prompt alone
save_page_replaces_history(path, html_content, prompt) ==
    LET existing == get_page(path)
    IN  [p \in DOMAIN pages \cup {path} |->
            IF p = path
            THEN [html_content   |-> html_content,
                  prompt_history |-> JsonDumps(<<prompt>>),
                  created_at     |-> IF existing.found THEN pages[path].created_at
                                     ELSE wallclock,
                  updated_at     |-> wallclock]
            ELSE pages[p]]

\* save_page with a slip: an update also rewrites created_at
save_page_resets_created(path, html_content, prompt) ==
    LET existing == get_page(path)
        history  == IF existing.found THEN existing.prompt_history ELSE <<>>
    IN  [p \in DOMAIN pages \cup {path} |->
            IF p = path
            THEN [html_content   |-> html_content,
                  prompt_history |-> JsonDumps(Append(history, prompt)),
                  created_at     |-> wallclock,
                  updated_at     |-> wallclock]
            ELSE pages[p]]

\* save_page with a slip: the row is always INSERTed; on a path that has a
\* row the statement fails on the primary key and the table stays as it was
save_page_insert_only(path, html_content, prompt) ==
    IF get_page(path).found
    THEN pages
    ELSE [p \in DOMAIN pages \cup {path} |->
             IF p = path
             THEN [html_content   |-> html_content,
                   prompt_history |-> JsonDumps(<<prompt>>),
                   created_at     |-> wallclock,
                   updated_at     |-> wallclock]
             ELSE pages[p]]

\* save_page: the pages table after save_page(path, html_content, prompt)
save_page(path, html_content, prompt) ==
    LET now      == wallclock
        existing == get_page(path)
    IN  IF existing.found
        THEN [pages EXCEPT ![path] =
                 [html_content   |-> html_content,
                  prompt_history |-> JsonDumps(Append(existing.prompt_history, prompt)),
                  created_at     |-> pages[path].created_at,
                  updated_at     |-> now]]
        ELSE [p \in DOMAIN pages \cup {path} |->
                 IF p = path
                 THEN [html_content   |-> html_content,
                       prompt_history |-> JsonDumps(<<prompt>>),
                       created_at     |-> now,
                       updated_at     |-> now]
                 ELSE pages[p]]

\* ------------------------------------------------- RateLimiter (main.py)
\* is_allowed with a slip: the quota is compared with > instead of >=
is_allowed_off_by_one(key) ==
    LET pruned == SelectSeq(hits[key], LAMBDA t : monotonic - t < RATE_LIMIT_WINDOW)
    IN  IF Len(pruned) > RATE_LIMIT_REQUESTS
        THEN [hits |-> [hits EXCEPT ![key] = pruned], allowed |-> FALSE]
        ELSE [hits |-> [hits EXCEPT ![key] = Append(pruned, monotonic)], allowed |-> TRUE]

\* is_allowed with a slip: a rejected request is recorded as a hit too
is_allowed_records_rejected(key) ==
    LET pruned == SelectSeq(hits[key], LAMBDA t : monotonic - t < RATE_LIMIT_WINDOW)
    IN  [hits    |-> [hits EXCEPT ![key] = Append(pruned, monotonic)],
         allowed |-> Len(pruned) < RATE_LIMIT_REQUESTS]

\* is_allowed(key): the pruned (and possibly extended) hit list, and the verdict
is_allowed(key) ==
    LET now    == monotonic
        pruned == SelectSeq(hits[key], LAMBDA t : now - t < RATE_LIMIT_WINDOW)
    IN  IF Len(pruned) >= RATE_LIMIT_REQUESTS
        THEN [hits |-> [hits EXCEPT ![key] = pruned], allowed |-> FALSE]
        ELSE [hits |-> [hits EXCEPT ![key] = Append(pruned, now)], allowed |-> TRUE]

\* --------------------------------------------------- escaping (main.py)
escape_html(text) ==
    ReplaceChar(ReplaceChar(ReplaceChar(ReplaceChar(text,
        "&", <<"&","a","m","p",";">>),
        "<", <<"&","l","t",";">>),
        ">", <<"&","g","t",";">>),
        "\"", <<"&","q","u","o","t",";">>)

escape_js(text) ==
    ReplaceChar(ReplaceChar(ReplaceChar(ReplaceChar(text,
        "\\", <<"\\","\\">>),
        "\"", <<"\\","\"">>),
        "'", <<"\\","'">>),
        "\n", <<"\\","n">>)

\* <script>window.__API_SECRET__="...";</script>
secret_script == <<"<script>window.__API_SECRET__=\"">> \o escape_js(API_SECRET) \o <<"\";</script>">>

\* OVERLAY_JS % {"path": ..., "last_prompt": ...}; the literal text between
\* the substitution points is one token each
OVERLAY_JS(path, last_prompt) ==
    <<"OVERLAY_JS[0]">> \o path \o <<"OVERLAY_JS[1]">> \o last_prompt
        \o <<"OVERLAY_JS[2]">> \o path \o <<"OVERLAY_JS[3]">>

\* the content of templates/shell.html
SHELL_HTML == <<"<html><head>", "</head>", "<body>shell</body></html>">>

\* an HTMLResponse, or the response of an HTTPException
Response(status, body) == [status |-> status, body |-> body]

\* _serve_shell
serve_shell ==
    IF API_SECRET # <<>>
    THEN ReplaceFirst(SHELL_HTML, "</head>", secret_script \o <<"</head>">>)
    ELSE SHELL_HTML

\* the path parameter of the route "/{path:path}" for a URL path
RouteParam(url) == Tail(url)

\* the build overlay injected into a stored document
InjectOverlay(html, overlay_html) ==
    IF Contains(Lower(html), <<"<","/","b","o","d","y",">">>)
    THEN LET idx == RFind(Lower(html), <<"<","/","b","o","d","y",">">>)
         IN  Slice(html, 0, idx) \o overlay_html \o Slice(html, idx, Len(html))
    ELSE html \o overlay_html

\* the path serve_page works with: "/" for the empty parameter, "/" prepended
\* to a parameter that does not start with one
NormalizeServePath(param) ==
    IF param = <<>> THEN <<"/">>
    ELSE IF ~StartsWith(param, <<"/">>) THEN <<"/">> \o param
    ELSE param

\* path_lower in BLOCKED_PATHS
is_blocked_path(path) == Lower(path) \in BLOCKED_PATHS

\* the extension check with a slip: a stored page does not lift the block
is_blocked_extension_always(path) == SplitExt(Lower(path)) \in BLOCKED_EXTENSIONS

\* ext in BLOCKED_EXTENSIONS and not get_page(path)
is_blocked_extension(path) ==
    SplitExt(Lower(path)) \in BLOCKED_EXTENSIONS /\ ~get_page(path).found

\* the stored document with the build overlay injected (is_build and page)
serve_overlay(path, page) ==
    LET html         == page.html_content
        last_prompt  == IF page.prompt_history # <<>>
                        THEN ReplaceChar(ReplaceChar(
                                 page.prompt_history[Len(page.prompt_history)],
                                 "'", <<"\\","'">>), "\n", <<"\\","n">>)
                        ELSE <<>>
        overlay      == OVERLAY_JS(escape_html(path), last_prompt)
        overlay_html == IF API_SECRET # <<>> THEN secret_script \o overlay ELSE overlay
    IN  InjectOverlay(html, overlay_html)

\* serve_page with a slip: build mode on a path without a page is not found
serve_page_build_not_found(param, is_build) ==
    LET path == NormalizeServePath(param)
        page == get_page(path)
    IN  IF is_blocked_path(path) THEN Response(404, <<>>)
        ELSE IF is_blocked_extension(path) THEN Response(404, <<>>)
        ELSE IF is_build /\ page.found THEN Response(200, serve_overlay(path, page))
        ELSE IF is_build /\ ~page.found THEN Response(404, <<>>)
        ELSE IF page.found THEN Response(200, page.html_content)
        ELSE Response(200, serve_shell)

\* serve_page(path, request): status and body of the response
serve_page(param, is_build) ==
    LET path == NormalizeServePath(param)
        page == get_page(path)
    IN  IF is_blocked_path(path) THEN Response(404, <<>>)
        ELSE IF is_blocked_extension(path) THEN Response(404, <<>>)
        ELSE IF is_build /\ page.found THEN Response(200, serve_overlay(path, page))
        ELSE IF is_build /\ ~page.found THEN Response(200, serve_shell)
        ELSE IF page.found THEN Response(200, page.html_content)
        ELSE Response(200, serve_shell)

\* ------------------------------------------- generation stream (generator.py)
\* the system instruction generate_page_stream selects
SystemFor(has_html, current_html) ==
    IF has_html /\ current_html # <<>> THEN "REBUILD_SYSTEM_PROMPT" ELSE "SYSTEM_PROMPT"

\* the user message generate_page_stream builds
UserMessageFor(prompt, has_html, current_html) ==
    IF has_html /\ current_html # <<>>
    THEN <<"Here is the current page HTML:\n\n">> \o current_html
             \o <<"\n\n---\n\nUser's modification request: ">> \o prompt
    ELSE prompt

\* a stream_and_save generator that does not exist yet
IdleStream ==
    [pc |-> "idle", path |-> <<>>, prompt |-> <<>>, has_html |-> FALSE,
     current_html |-> <<>>, system |-> "", user_message |-> <<>>,
     chunks |-> <<>>, backend_done |-> FALSE, saved |-> FALSE]

\* a generator that has ended: its locals are gone; what stays is how it
\* ended and whether save_page was called
Ended(outcome, saved) == [IdleStream EXCEPT !.pc = outcome, !.saved = saved]

StreamIds == 1..MaxStreams

\* req.path.strip(), then "/" prepended unless already there
NormalizeRequestPath(raw) ==
    LET stripped == Strip(raw)
    IN  IF ~StartsWith(stripped, <<"/">>) THEN <<"/">> \o stripped ELSE stripped

\* the credential api_generate compares with API_SECRET
ProvidedCredential(auth) == Strip(RemovePrefix(auth, Bearer))

\* ------------------------------------------------------------------- Init
Init ==
    /\ API_SECRET \in Secrets
    /\ monotonic = 0
    /\ wallclock = 0
    /\ pages = << >>
    /\ hits = [k \in SourceKeys |-> <<>>]
    /\ streams = [s \in StreamIds |-> IdleStream]
    /\ response = 0
    /\ saveLog = << >>
    /\ allowedAt = [k \in SourceKeys |-> <<>>]
    /\ completed = {}
    /\ rejected = {}
    /\ raced = {}

\* ---------------------------------------------------------------- actions
\* POST /api/generate: auth check, rate limit, path normalisation, context
\* lookup; an accepted request leaves a stream_and_save generator behind
api_generate(ip, auth, raw, prompt, mode) ==
    IF API_SECRET # <<>> /\ ProvidedCredential(auth) # API_SECRET
    THEN /\ response' = 401
         /\ UNCHANGED <<API_SECRET, monotonic, wallclock, pages, hits, streams,
                        saveLog, allowedAt, completed,
                   rejected, raced>>
    ELSE LET verdict == is_allowed(ip)
         IN  IF ~verdict.allowed
             THEN /\ hits' = verdict.hits
                  /\ response' = 429
                  /\ rejected' = rejected \cup {ip}
                  /\ UNCHANGED <<API_SECRET, monotonic, wallclock, pages, streams,
                                 saveLog, allowedAt, completed, raced>>
             ELSE \E s \in StreamIds :
                  /\ streams[s].pc = "idle"
                  /\ \A r \in StreamIds : r < s => streams[r].pc # "idle"
                  /\ LET path == NormalizeRequestPath(raw)
                         page == get_page(path)
                         has  == mode = "rebuild" /\ page.found
                     IN  streams' = [streams EXCEPT ![s] =
                             [pc |-> "accepted", path |-> path, prompt |-> prompt,
                              has_html |-> has,
                              current_html |-> IF has THEN page.html_content ELSE <<>>,
                              system |-> "", user_message |-> <<>>,
                              chunks |-> <<>>,
                              backend_done |-> FALSE, saved |-> FALSE]]
                  /\ hits' = verdict.hits
                  /\ allowedAt' = [allowedAt EXCEPT ![ip] = Append(@, monotonic)]
                  /\ response' = 200
                  /\ UNCHANGED <<API_SECRET, monotonic, wallclock, pages, saveLog,
                                 completed, rejected, raced>>

\* StartStream with a slip: the context is read from the Store when the
\* stream starts, not when the request is accepted
StartStream_rereads_page(s) ==
    /\ streams[s].pc = "accepted"
    /\ LET current == IF streams[s].has_html /\ get_page(streams[s].path).found
                      THEN get_page(streams[s].path).html_content
                      ELSE streams[s].current_html
       IN  streams' = [streams EXCEPT
                          ![s].pc = "streaming",
                          ![s].current_html = current,
                          ![s].system = SystemFor(streams[s].has_html, current),
                          ![s].user_message =
                              UserMessageFor(streams[s].prompt,
                                             streams[s].has_html, current)]
    /\ UNCHANGED <<API_SECRET, monotonic, wallclock, pages, hits, response,
                   saveLog, allowedAt, completed, rejected, raced>>

\* the response starts pulling: generate_page_stream opens the backend exchange
StartStream(s) ==
    /\ streams[s].pc = "accepted"
    /\ streams' = [streams EXCEPT ![s].pc = "streaming",
                                  ![s].system = SystemFor(streams[s].has_html,
                                                          streams[s].current_html),
                                  ![s].user_message =
                                      UserMessageFor(streams[s].prompt,
                                                     streams[s].has_html,
                                                     streams[s].current_html)]
    /\ UNCHANGED <<API_SECRET, monotonic, wallclock, pages, hits, response,
                   saveLog, allowedAt, completed,
                   rejected, raced>>

\* the backend emits a fragment: stream_and_save buffers it and yields it
Fragment(s, text) ==
    /\ streams[s].pc = "streaming"
    /\ ~streams[s].backend_done
    /\ Len(streams[s].chunks) < MaxFrags
    /\ streams' = [streams EXCEPT ![s].chunks = Append(@, text)]
    /\ UNCHANGED <<API_SECRET, monotonic, wallclock, pages, hits, response,
                   saveLog, allowedAt, completed,
                   rejected, raced>>

\* the backend ends its text_stream: the end waits to be pulled
BackendFinish(s) ==
    /\ streams[s].pc = "streaming"
    /\ ~streams[s].backend_done
    /\ streams' = [streams EXCEPT ![s].backend_done = TRUE]
    /\ UNCHANGED <<API_SECRET, monotonic, wallclock, pages, hits, response,
                   saveLog, allowedAt, completed,
                   rejected, raced>>

\* Complete with a slip: the buffer is joined without its last fragment
Complete_skips_last_fragment(s) ==
    /\ streams[s].pc = "streaming"
    /\ streams[s].backend_done
    /\ LET path      == streams[s].path
           full_html == Join(SubSeq(streams[s].chunks, 1,
                                    Len(streams[s].chunks) - 1))
           before    == IF path \in DOMAIN saveLog THEN saveLog[path].prompts ELSE <<>>
       IN  /\ pages' = save_page(path, full_html, streams[s].prompt)
           /\ saveLog' = [p \in DOMAIN saveLog \cup {path} |->
                  IF p = path
                  THEN [prompts      |-> Append(before, streams[s].prompt),
                        html_content |-> full_html]
                  ELSE saveLog[p]]
           /\ completed' = completed \cup {path}
           /\ raced' = IF streams[s].chunks # <<>>
                          /\ \E t \in StreamIds \ {s} :
                                /\ streams[t].pc = "streaming"
                                /\ streams[t].path = path
                                /\ streams[t].chunks # <<>>
                       THEN raced \cup {path} ELSE raced
    /\ streams' = [streams EXCEPT ![s] = Ended("done", TRUE)]
    /\ UNCHANGED <<API_SECRET, monotonic, wallclock, hits, response, allowedAt,
                   rejected>>

\* the response pulls the end of the stream: the loop of stream_and_save
\* ends and the joined buffer is saved
Complete(s) ==
    /\ streams[s].pc = "streaming"
    /\ streams[s].backend_done
    /\ LET path      == streams[s].path
           full_html == Join(streams[s].chunks)
           before    == IF path \in DOMAIN saveLog THEN saveLog[path].prompts ELSE <<>>
       IN  /\ pages' = save_page(path, full_html, streams[s].prompt)
           /\ saveLog' = [p \in DOMAIN saveLog \cup {path} |->
                  IF p = path
                  THEN [prompts      |-> Append(before, streams[s].prompt),
                        html_content |-> full_html]
                  ELSE saveLog[p]]
           /\ completed' = completed \cup {path}
           /\ raced' = IF streams[s].chunks # <<>>
                          /\ \E t \in StreamIds \ {s} :
                                /\ streams[t].pc = "streaming"
                                /\ streams[t].path = path
                                /\ streams[t].chunks # <<>>
                       THEN raced \cup {path} ELSE raced
    /\ streams' = [streams EXCEPT ![s] = Ended("done", TRUE)]
    /\ UNCHANGED <<API_SECRET, monotonic, wallclock, hits, response, allowedAt,
                   rejected>>

\* BackendError with a slip: the partial document is saved on the way out
BackendError_saves_partial(s) ==
    /\ streams[s].pc = "streaming"
    /\ ~streams[s].backend_done
    /\ pages' = save_page(streams[s].path, Join(streams[s].chunks), streams[s].prompt)
    /\ streams' = [streams EXCEPT ![s] = Ended("failed", FALSE)]
    /\ UNCHANGED <<API_SECRET, monotonic, wallclock, hits, response,
                   saveLog, allowedAt, completed,
                   rejected, raced>>

\* the backend raises while the stream is open: the exception leaves
\* stream_and_save before the save
BackendError(s) ==
    /\ streams[s].pc = "streaming"
    /\ ~streams[s].backend_done
    /\ streams' = [streams EXCEPT ![s] = Ended("failed", FALSE)]
    /\ UNCHANGED <<API_SECRET, monotonic, wallclock, pages, hits, response,
                   saveLog, allowedAt, completed,
                   rejected, raced>>

\* the HTTP caller goes away: the response stops pulling from
\* stream_and_save, which is closed where it is suspended
Disconnect(s) ==
    /\ streams[s].pc \in {"accepted", "streaming"}
    /\ streams' = [streams EXCEPT ![s] = Ended("cancelled", FALSE)]
    /\ UNCHANGED <<API_SECRET, monotonic, wallclock, pages, hits, response,
                   saveLog, allowedAt, completed,
                   rejected, raced>>

\* GET /{path}: the response is serve_page of the current state; the handler
\* writes nothing
Get(url, is_build) ==
    /\ serve_page(RouteParam(url), is_build).status \in {200, 404}
    /\ UNCHANGED vars

\* time.monotonic() advances
TickMonotonic ==
    /\ monotonic < MaxMonotonic
    /\ monotonic' = monotonic + 1
    /\ UNCHANGED <<API_SECRET, wallclock, pages, hits, streams, response,
                   saveLog, allowedAt, completed,
                   rejected, raced>>

\* datetime.now() advances
TickWall ==
    /\ wallclock < MaxWall
    /\ wallclock' = wallclock + 1
    /\ UNCHANGED <<API_SECRET, monotonic, pages, hits, streams, response,
                   saveLog, allowedAt, completed,
                   rejected, raced>>

\* the pipeline: one source, every path, prompt, mode and fragment, every URL
Next ==
    \/ \E ip \in PipelineKeys, auth \in PipelineHeaders, raw \in RequestPaths,
          prompt \in Prompts, mode \in Modes : api_generate(ip, auth, raw, prompt, mode)
    \/ \E s \in StreamIds : StartStream(s)
    \/ \E s \in StreamIds, text \in Fragments : Fragment(s, text)
    \/ \E s \in StreamIds : BackendFinish(s)
    \/ \E s \in StreamIds : Complete(s)
    \/ \E s \in StreamIds : BackendError(s)
    \/ \E s \in StreamIds : Disconnect(s)
    \/ \E url \in Urls, is_build \in BOOLEAN : Get(url, is_build)

Spec == Init /\ [][Next]_vars

\* the guard and the clocks: every source and Authorization header, both
\* clocks advancing, one path and prompt, backends that emit no fragment and
\* do not fail, callers that stay connected
NextGuard ==
    \/ \E ip \in SourceKeys, auth \in AuthHeaders, raw \in GuardPaths,
          prompt \in GuardPrompts, mode \in GuardModes :
              api_generate(ip, auth, raw, prompt, mode)
    \/ \E s \in StreamIds : StartStream(s)
    \/ \E s \in StreamIds : BackendFinish(s)
    \/ \E s \in StreamIds : Complete(s)
    \/ \E url \in GuardUrls, is_build \in BOOLEAN : Get(url, is_build)
    \/ TickMonotonic
    \/ TickWall

SpecGuard == Init /\ [][NextGuard]_vars

\* the build overlay: one source and path, create requests, every document
\* of up to MaxFrags fragments of OverlayFragments, GET with and without build
NextOverlay ==
    \/ \E ip \in PipelineKeys, auth \in OverlayHeaders, raw \in GuardPaths,
          prompt \in GuardPrompts, mode \in GuardModes :
              api_generate(ip, auth, raw, prompt, mode)
    \/ \E s \in StreamIds : StartStream(s)
    \/ \E s \in StreamIds, text \in OverlayFragments : Fragment(s, text)
    \/ \E s \in StreamIds : BackendFinish(s)
    \/ \E s \in StreamIds : Complete(s)
    \/ \E url \in GuardUrls, is_build \in BOOLEAN : Get(url, is_build)

SpecOverlay == Init /\ [][NextOverlay]_vars

\* rebuild requests: create and rebuild requests of two sources for one path,
\* overlapping in every order
NextRebuild ==
    \/ \E ip \in SourceKeys, auth \in OverlayHeaders, raw \in GuardPaths,
          prompt \in RebuildPrompts, mode \in Modes :
              api_generate(ip, auth, raw, prompt, mode)
    \/ \E s \in StreamIds : StartStream(s)
    \/ \E s \in StreamIds, text \in RebuildFragments : Fragment(s, text)
    \/ \E s \in StreamIds : BackendFinish(s)
    \/ \E s \in StreamIds : Complete(s)
    \/ \E url \in GuardUrls, is_build \in BOOLEAN : Get(url, is_build)

SpecRebuild == Init /\ [][NextRebuild]_vars

TypeOK ==
    /\ API_SECRET \in Secrets
    /\ monotonic \in 0..MaxMonotonic
    /\ wallclock \in 0..MaxWall
    /\ response \in {0, 200, 401, 429}
    /\ \A s \in StreamIds :
          streams[s].pc \in {"idle", "accepted", "streaming", "done", "failed", "cancelled"}

\* ================================================================= claims
\* the path serve_page resolves a GET of this URL to
PathOf(url) == NormalizeServePath(RouteParam(url))

\* the response to GET url, with or without the build parameter
GetResponse(url, is_build) == serve_page(RouteParam(url), is_build)

\* a path matched by the probe-path set without regard to letter case
IsProbePath(path) == \E b \in BLOCKED_PATHS : Lower(b) = Lower(path)

\* a path whose extension is in the extension denylist
HasDeniedExtension(path) == SplitExt(Lower(path)) \in BLOCKED_EXTENSIONS

SavedPaths == DOMAIN saveLog

\* ----------------------------------------------------------------- C1
\* C1 (as claimed): a request whose backend stream finished has had
\* save_page called by the time its stream_and_save generator is gone,
\* whether or not the HTTP caller kept consuming the response.
C1_SavedDespiteDisconnect ==
    [][\A s \in StreamIds :
          (streams[s].backend_done /\ streams'[s].pc # "streaming")
          => streams'[s].saved]_vars

C4_FailureWritesNothing ==
    [][\A s \in StreamIds :
          /\ (streams[s].pc # "failed" /\ streams'[s].pc = "failed")
             => (pages' = pages /\ saveLog' = saveLog /\ ~streams'[s].saved)
          /\ streams[s].pc = "failed" => streams'[s] = streams[s]]_vars

\* a stream has failed while the Store holds a page
C4_Witness ==
    /\ \E s \in StreamIds : streams[s].pc = "failed" /\ ~streams[s].saved
    /\ pages # << >>

\* ----------------------------------------------------------------- C5
\* C5 (as claimed): when the backend finishes a stream whose fragments join
\* to the empty text, the request ends without a save: the Store is as it was.
C5_EmptyNotPersisted ==
    [][\A s \in StreamIds :
          (/\ streams[s].pc = "streaming"
           /\ streams[s].backend_done
           /\ Join(streams[s].chunks) = <<>>
           /\ streams'[s].pc # "streaming")
          => (pages' = pages /\ ~streams'[s].saved)]_vars

\* ----------------------------------------------------------------- C6
\* C6: the stored prompt_history of every path, decoded, is exactly the
\* sequence of the prompts of the save_page calls for that path in call order.
C6_HistoryIsCallOrder ==
    /\ DOMAIN pages = SavedPaths
    /\ \A p \in SavedPaths : get_page(p).prompt_history = saveLog[p].prompts

\* the same prompt, one with quote and newline characters, saved twice
C6_Witness ==
    \E p \in SavedPaths :
        /\ saveLog[p].prompts = << <<"'","\"","\n">>, <<"'","\"","\n">> >>
        /\ get_page(p).prompt_history = saveLog[p].prompts

C10_NeverSavedGetsShell ==
    \A url \in Urls, b \in BOOLEAN :
        PathOf(url) \notin SavedPaths => GetResponse(url, b) = Response(200, serve_shell)

\* C10 (amended): for every path never saved that is neither matched by the
\* probe-path check nor has a denylisted extension, GET returns the blank
\* shell with and without build; a never-saved path that is denylisted gets
\* not-found with and without build; the build flag changes the response only
\* when a Page exists at the path.
C10_NeverSavedShellUnlessDenied ==
    \A url \in Urls :
        LET path == PathOf(url)
        IN  /\ path \notin SavedPaths
               => \A b \in BOOLEAN :
                     GetResponse(url, b) =
                        IF Lower(path) \in BLOCKED_PATHS \/ HasDeniedExtension(path)
                        THEN Response(404, <<>>)
                        ELSE Response(200, serve_shell)
            /\ GetResponse(url, TRUE) # GetResponse(url, FALSE) => path \in DOMAIN pages

\* with a secret configured and a page stored elsewhere, /a was never saved
\* and gets the shell in build mode, while build mode changes the response
\* of the stored page
C10_Witness ==
    /\ API_SECRET # <<>>
    /\ <<"/","a">> \notin SavedPaths
    /\ GetResponse(<<"/","a">>, TRUE) = Response(200, serve_shell)
    /\ \E p \in SavedPaths : GetResponse(p, TRUE) # GetResponse(p, FALSE)

\* ----------------------------------------------------------------- C8
\* the number of requests of a source that is_allowed let through in the
\* window of RATE_LIMIT_WINDOW time units that ends at instant T
AllowedInWindow(key, T) ==
    Cardinality({i \in 1..Len(allowedAt[key]) :
                    T - allowedAt[key][i] < RATE_LIMIT_WINDOW /\ allowedAt[key][i] <= T})

\* C8: for every source and every window of RATE_LIMIT_WINDOW time units, at
\* most RATE_LIMIT_REQUESTS requests were let through by is_allowed; and a
\* request answered 429 creates no stream (so no backend call follows from
\* it) and writes nothing to the Store.
C8_LimiterSafety ==
    /\ [](\A key \in SourceKeys, T \in 0..MaxMonotonic :
             AllowedInWindow(key, T) <= RATE_LIMIT_REQUESTS)
    /\ [][(\E ip \in SourceKeys, auth \in AuthHeaders, raw \in GuardPaths,
              prompt \in GuardPrompts, mode \in GuardModes :
                 api_generate(ip, auth, raw, prompt, mode) /\ response' = 429)
          => UNCHANGED <<pages, saveLog, completed, streams, allowedAt>>]_vars

\* a source used its quota, was let through again after the window moved on,
\* and is now rejected
C8_Witness ==
    /\ response = 429
    /\ \E key \in SourceKeys :
          /\ Len(allowedAt[key]) = RATE_LIMIT_REQUESTS + 1
          /\ AllowedInWindow(key, monotonic) = RATE_LIMIT_REQUESTS

\* ----------------------------------------------------------------- C9
\* the bearer credential of an Authorization header: the text after the
\* scheme word "Bearer" and the spaces that follow it
BearerCredential(auth) ==
    IF StartsWith(auth, Bearer)
    THEN [present |-> TRUE, token |-> LStrip(RemovePrefix(auth, Bearer))]
    ELSE [present |-> FALSE, token |-> <<>>]

\* C9 (as claimed): with a secret configured, a request whose bearer
\* credential is missing or differs from the secret is answered 401 and leaves
\* the limiter, the streams and the Store as they were; with no secret
\* configured no request is answered 401.
C9_UnauthorizedRejectedFirst ==
    [][\A ip \in SourceKeys, auth \in AuthHeaders, raw \in GuardPaths,
          prompt \in GuardPrompts, mode \in GuardModes :
          api_generate(ip, auth, raw, prompt, mode)
          => /\ (/\ API_SECRET # <<>>
                 /\ (~BearerCredential(auth).present
                     \/ BearerCredential(auth).token # API_SECRET))
                => /\ response' = 401
                   /\ UNCHANGED <<hits, allowedAt, streams, pages, saveLog, completed>>
             /\ API_SECRET = <<>> => response' # 401]_vars

\* ---------------------------------------------------------------- C11
\* C11 (as claimed): an accepted request with mode = rebuild for a path where
\* a Page exists carries that Page's html_content, and the Generation Client
\* is then invoked with the rebuild instruction and a user message that
\* embeds that html_content; an accepted rebuild request for a path with no
\* Page, and every accepted create request, invokes the client with the
\* create instruction and the bare prompt.
C11_RebuildUsesStoredPage ==
    [][/\ \A ip \in PipelineKeys, auth \in PipelineHeaders, raw \in RequestPaths,
             prompt \in Prompts, mode \in Modes :
             (api_generate(ip, auth, raw, prompt, mode) /\ response' = 200)
             => \E s \in StreamIds :
                   /\ streams[s].pc = "idle"
                   /\ streams'[s].pc = "accepted"
                   /\ streams'[s].prompt = prompt
                   /\ streams'[s].has_html
                        = (mode = "rebuild" /\ NormalizeRequestPath(raw) \in DOMAIN pages)
                   /\ streams'[s].has_html
                        => streams'[s].current_html
                             = pages[NormalizeRequestPath(raw)].html_content
       /\ \A s \in StreamIds :
             (streams[s].pc = "accepted" /\ streams'[s].pc = "streaming")
             => IF streams[s].has_html
                THEN /\ streams'[s].system = "REBUILD_SYSTEM_PROMPT"
                     /\ streams'[s].user_message =
                           <<"Here is the current page HTML:\n\n">>
                             \o streams[s].current_html
                             \o <<"\n\n---\n\nUser's modification request: ">>
                             \o streams[s].prompt
                ELSE /\ streams'[s].system = "SYSTEM_PROMPT"
                     /\ streams'[s].user_message = streams[s].prompt]_vars

\* ---------------------------------------------------------------- C12
\* C12: while a response is consumed, each fragment of the backend is added
\* at the end of what was relayed so far and nothing is saved; when the end
\* of the stream is pulled, save_page is called once: the stored html_content
\* is the in-order concatenation of exactly the relayed fragments, the
\* request's prompt is appended to the history (one more save_page call for
\* the path), a GET of the path returns the streamed text, and the finished
\* request does nothing more.
C12_StreamedThenSavedOnce ==
    [][\A s \in StreamIds :
          /\ (streams[s].pc = "streaming" /\ streams'[s].pc = "streaming")
             => /\ \/ streams'[s].chunks = streams[s].chunks
                    \/ \E text \in OverlayFragments :
                          streams'[s].chunks = Append(streams[s].chunks, text)
                /\ ~streams'[s].saved
          /\ (streams[s].pc = "streaming" /\ streams'[s].pc = "done")
             => LET path   == streams[s].path
                    full   == Join(streams[s].chunks)
                    before == IF path \in DOMAIN pages
                              THEN JsonLoads(pages[path].prompt_history) ELSE <<>>
                    calls  == IF path \in DOMAIN saveLog
                              THEN Len(saveLog[path].prompts) ELSE 0
                IN  /\ streams[s].backend_done
                    /\ streams'[s].saved
                    /\ pages'[path].html_content = full
                    /\ JsonLoads(pages'[path].prompt_history)
                         = Append(before, streams[s].prompt)
                    /\ Len(saveLog'[path].prompts) = calls + 1
                    /\ \A url \in GuardUrls :
                          (url = path /\ Lower(url) \notin BLOCKED_PATHS)
                          => GetResponse(url, FALSE)' = Response(200, full)
          /\ streams[s].pc = "done" => streams'[s] = streams[s]]_vars

\* on a store that was empty, a request streamed two fragments and was
\* saved once: the record holds their concatenation and [prompt], and GET
\* returns the streamed text
C12_Witness ==
    /\ \E s \in StreamIds : streams[s].pc = "done" /\ streams[s].saved
    /\ DOMAIN pages = { <<"/","a">> }
    /\ pages[<<"/","a">>].html_content = <<"h","<","/","b","o","d","y",">">>
    /\ get_page(<<"/","a">>).prompt_history = << <<"p">> >>
    /\ saveLog[<<"/","a">>].prompts = << <<"p">> >>
    /\ GetResponse(<<"/","a">>, FALSE).body = <<"h","<","/","b","o","d","y",">">>

\* ---------------------------------------------------------------- C13
\* C13: in every state any request can read, each Page is the record of one
\* save_page call, the last one for its path: its html_content is that
\* call's document and its prompt_history is well-formed JSON that decodes
\* to the prompts of the calls so far; and a request that finishes while
\* another request for the same path is in flight, or after one has saved
\* during its stream, has its save written in full and leaves the other
\* request as it was.
C13_SaveAtomicPerPath ==
    /\ [](\A p \in DOMAIN pages :
             /\ p \in DOMAIN saveLog
             /\ pages[p].prompt_history = JsonDumps(get_page(p).prompt_history)
             /\ get_page(p).html_content = saveLog[p].html_content
             /\ get_page(p).prompt_history = saveLog[p].prompts)
    /\ [][\A s \in StreamIds :
             (/\ streams[s].pc = "streaming"
              /\ streams'[s].pc = "done"
              /\ \/ streams[s].path \in DOMAIN pages
                 \/ \E t \in StreamIds \ {s} :
                       /\ streams[t].pc \in {"accepted", "streaming"}
                       /\ streams[t].path = streams[s].path)
             => /\ streams'[s].saved
                /\ pages'[streams[s].path].html_content = Join(streams[s].chunks)
                /\ Len(JsonLoads(pages'[streams[s].path].prompt_history))
                     = (IF streams[s].path \in DOMAIN pages
                        THEN Len(JsonLoads(pages[streams[s].path].prompt_history))
                        ELSE 0) + 1
                /\ \A t \in StreamIds \ {s} : streams'[t] = streams[t]]_vars

\* two requests for one fresh path overlapped, each relaying text, and both
\* saved: the Page is the second save's record
C13_Witness ==
    \E p \in raced :
        /\ Len(saveLog[p].prompts) = 2
        /\ Cardinality({s \in StreamIds : streams[s].pc = "done"}) = 2
        /\ get_page(p).html_content = saveLog[p].html_content
        /\ get_page(p).prompt_history = saveLog[p].prompts

\* ---------------------------------------------------------------- C14
\* C14 (as claimed): a GET, with or without build, of a path that is in the
\* probe-path set in some letter case, or that has a denylisted file
\* extension, is answered not-found when no Page is stored at that path.
C14_DenylistedNotFoundWithoutPage ==
    \A url \in Urls, b \in BOOLEAN :
        (/\ IsProbePath(PathOf(url)) \/ HasDeniedExtension(PathOf(url))
         /\ PathOf(url) \notin DOMAIN pages)
        => GetResponse(url, b).status = 404

\* ---------------------------------------------------------------- C15
\* C15 (as claimed): a save on a fresh path creates the Page with created_at
\* equal to updated_at; every later save on the path leaves created_at
\* unchanged and sets updated_at to a strictly later timestamp.
C15_UpdatedAtStrictlyLater ==
    [][\A p \in DOMAIN pages' :
          IF p \notin DOMAIN pages
          THEN pages'[p].created_at = pages'[p].updated_at
          ELSE pages'[p] # pages[p]
               => /\ pages'[p].created_at = pages[p].created_at
                  /\ pages'[p].updated_at > pages[p].updated_at]_vars

\* C15 (amended): a save on a fresh path creates the Page with created_at
\* and updated_at both equal to the clock reading of that save; every later
\* save on the path leaves created_at unchanged and sets updated_at to the
\* clock reading of that save.
C15_UpdatedAtIsSaveTime ==
    [][\A p \in DOMAIN pages' :
          IF p \notin DOMAIN pages
          THEN /\ pages'[p].created_at = wallclock
               /\ pages'[p].updated_at = wallclock
          ELSE pages'[p] # pages[p]
               => /\ pages'[p].created_at = pages[p].created_at
                  /\ pages'[p].updated_at = wallclock]_vars

\* a Page saved a second time after the clock moved on
C15_Witness ==
    \E p \in DOMAIN pages :
        /\ Len(get_page(p).prompt_history) >= 2
        /\ pages[p].created_at < pages[p].updated_at

\* ---------------------------------------------------------------- C16
\* a closing body tag in any letter case at 0-based position i of html
ClosingBodyAt(html, i) ==
    /\ i + 7 <= Len(html)
    /\ \A k \in 1..7 :
          (IF html[i + k] \in DOMAIN UpperToLower
           THEN UpperToLower[html[i + k]] ELSE html[i + k])
            = <<"<","/","b","o","d","y",">">>[k]

\* the overlay fragment of a path: what build mode adds to an empty document
OverlayFragmentOf(p) ==
    serve_overlay(p, [get_page(p) EXCEPT !.html_content = <<>>])

\* C16 (as claimed): GET with build of a stored Page returns the stored HTML
\* with the overlay fragment inserted immediately before the position of its
\* last closing body tag (any letter case), every stored character unchanged
\* and in order; without a closing body tag, the stored HTML followed by the
\* overlay fragment.
C16_OverlayBeforeLastBodyTag ==
    \A p \in DOMAIN pages :
        LET html == pages[p].html_content
            tags == {i \in 0..Len(html) : ClosingBodyAt(html, i)}
            last == CHOOSE i \in tags : \A j \in tags : j <= i
        IN  GetResponse(p, TRUE) =
               Response(200,
                   IF tags = {}
                   THEN html \o OverlayFragmentOf(p)
                   ELSE Slice(html, 0, last) \o OverlayFragmentOf(p)
                            \o Slice(html, last, Len(html)))

\* ---------------------------------------------------------------- C17
\* C17: a request that is_allowed rejects adds no hit for its source (the
\* recorded hits afterwards are a tail of the hits before, and the hits of
\* other sources are as they were); and whenever RATE_LIMIT_WINDOW time units
\* have passed since the oldest recorded hit of a source, is_allowed lets the
\* next request of that source through, whatever was rejected before.
C17_LimiterRecovers ==
    /\ [](\A key \in SourceKeys :
             (hits[key] # <<>> /\ monotonic - hits[key][1] >= RATE_LIMIT_WINDOW)
             => is_allowed(key).allowed)
    /\ [][\A ip \in SourceKeys, auth \in AuthHeaders, raw \in GuardPaths,
             prompt \in GuardPrompts, mode \in GuardModes :
             (api_generate(ip, auth, raw, prompt, mode) /\ response' = 429)
             => /\ \E k \in 1..(Len(hits[ip]) + 1) :
                      hits'[ip] = SubSeq(hits[ip], k, Len(hits[ip]))
                /\ \A other \in SourceKeys \ {ip} : hits'[other] = hits[other]
                /\ allowedAt' = allowedAt]_vars

\* a source used its quota, was rejected, and was let through again exactly
\* RATE_LIMIT_WINDOW after its oldest hit
C17_Witness ==
    \E key \in rejected :
        /\ Len(allowedAt[key]) = RATE_LIMIT_REQUESTS + 1
        /\ allowedAt[key][RATE_LIMIT_REQUESTS + 1] - allowedAt[key][1] = RATE_LIMIT_WINDOW
        /\ hits[key] = <<monotonic>>

\* ---------------------------------------------------------------- C18
\* C18: when a request finishes while another request for the same path is
\* streaming fragments, and when a request finishes on a path where that has
\* happened, its prompt is appended to the whole history stored at that
\* moment and html_content becomes its own full text: so after both have
\* finished the history holds both prompts in the order of completion and
\* the document is that of the request that finished last.
C18_OverlapKeepsBothPrompts ==
    [][\A s \in StreamIds :
          (/\ streams[s].pc = "streaming"
           /\ streams'[s].pc = "done"
           /\ \/ streams[s].path \in raced
              \/ \E t \in StreamIds \ {s} :
                    /\ streams[t].pc = "streaming"
                    /\ streams[t].path = streams[s].path
                    /\ streams[t].chunks # <<>>)
          => /\ JsonLoads(pages'[streams[s].path].prompt_history)
                  = Append(IF streams[s].path \in DOMAIN pages
                           THEN JsonLoads(pages[streams[s].path].prompt_history)
                           ELSE <<>>,
                           streams[s].prompt)
             /\ pages'[streams[s].path].html_content = Join(streams[s].chunks)]_vars

\* two requests for /a with different prompts overlapped while relaying
\* text and both finished: the history is the two prompts, the document
\* the second finisher's
C18_Witness ==
    /\ <<"/","a">> \in raced
    /\ Cardinality({s \in StreamIds : streams[s].pc = "done"}) = 2
    /\ \A s \in StreamIds : streams[s].pc \in {"idle", "done"}
    /\ get_page(<<"/","a">>).prompt_history = << <<"q">>, <<"p">> >>
    /\ get_page(<<"/","a">>).html_content = <<"h","h">>

\* ---------------------------------------------------------------- C19
\* C19: the context of a rebuild request is the html_content stored when the
\* request is accepted (a request answered 401 or 429 creates no stream);
\* while the request is in flight its context stays what it was, whatever is
\* saved to the path meanwhile, and the user message sent to the backend
\* embeds that snapshot; when the request finishes, html_content becomes its
\* own full text, whatever was stored in between.
C19_ContextIsSnapshot ==
    [][/\ \A ip \in SourceKeys, auth \in OverlayHeaders, raw \in GuardPaths,
             prompt \in RebuildPrompts, mode \in Modes :
             api_generate(ip, auth, raw, prompt, mode)
             => IF response' = 200
                THEN \E s \in StreamIds :
                        /\ streams[s].pc = "idle"
                        /\ streams'[s].pc = "accepted"
                        /\ (mode = "rebuild" /\ NormalizeRequestPath(raw) \in DOMAIN pages)
                           => /\ streams'[s].has_html
                              /\ streams'[s].current_html
                                   = pages[NormalizeRequestPath(raw)].html_content
                ELSE streams' = streams
       /\ \A s \in StreamIds :
             /\ (/\ streams[s].pc \in {"accepted", "streaming"}
                 /\ streams'[s].pc \in {"accepted", "streaming"})
                => /\ streams'[s].has_html = streams[s].has_html
                   /\ streams'[s].current_html = streams[s].current_html
             /\ (/\ streams[s].pc = "accepted" /\ streams'[s].pc = "streaming"
                 /\ streams[s].has_html /\ streams[s].current_html # <<>>)
                => streams'[s].user_message =
                      <<"Here is the current page HTML:\n\n">>
                        \o streams[s].current_html
                        \o <<"\n\n---\n\nUser's modification request: ">>
                        \o streams[s].prompt
             /\ (streams[s].pc = "streaming" /\ streams'[s].pc = "done")
                => pages'[streams[s].path].html_content = Join(streams[s].chunks)]_vars

\* a rebuild request is streaming with the snapshot it took, while the Store
\* already holds another document at its path, saved after the snapshot
C19_Witness ==
    \E s \in StreamIds :
        /\ streams[s].pc = "streaming"
        /\ streams[s].has_html
        /\ streams[s].current_html = <<"h">>
        /\ streams[s].system = "REBUILD_SYSTEM_PROMPT"
        /\ streams[s].path \in DOMAIN pages
        /\ pages[streams[s].path].html_content = <<"h","h">>
        /\ Len(get_page(streams[s].path).prompt_history) = 2

\* ---------------------------------------------------------------- C20
\* C20: the save of a finishing request writes the row of its own path only
\* (every other row stays, unchanged, and no other row appears); a GET, of any
\* URL, with or without build, served or rejected, leaves the Store and the
\* limiter's hits as they were; and a POST /api/generate answered 401 leaves
\* the limiter's hits as they were.
C20_FrameConditions ==
    [][/\ \A s \in StreamIds :
             (streams[s].pc = "streaming" /\ streams'[s].pc = "done")
             => /\ DOMAIN pages' = DOMAIN pages \cup {streams[s].path}
                /\ \A p \in DOMAIN pages \ {streams[s].path} : pages'[p] = pages[p]
       /\ \/ (pages' = pages /\ hits' = hits)
          \/ \A url \in Urls, is_build \in BOOLEAN : ~Get(url, is_build)
       /\ \/ (hits' = hits /\ allowedAt' = allowedAt /\ rejected' = rejected)
          \/ \A ip \in PipelineKeys, auth \in PipelineHeaders, raw \in RequestPaths,
                prompt \in Prompts, mode \in Modes :
                ~(response' = 401 /\ api_generate(ip, auth, raw, prompt, mode))]_vars

\* two paths hold different documents, the second saved after the first, and
\* a request was answered 401 after the source had recorded hits
C20_Witness ==
    /\ Cardinality(DOMAIN pages) = 2
    /\ \E p, q \in DOMAIN pages : pages[p].html_content # pages[q].html_content
    /\ response = 401
    /\ \E key \in PipelineKeys : Len(hits[key]) = RATE_LIMIT_REQUESTS

====
